---- MODULE Spec2Model ----
(***************************************************************************)
(* JsonToDocument (haystack/components/converters/json.py): a converter    *)
(* that reads JSON from file paths or ByteStreams and turns every JSON     *)
(* object into a Document.  The model follows run() statement by           *)
(* statement: one action per branch of the loop body, the array loop one   *)
(* element at a time.                                                      *)
(*                                                                         *)
(* Python values are tagged records (field k names the Python type), so    *)
(* that values of different types can be compared.  A text is the sequence *)
(* of its JSON tokens; bytes are the same sequence, in which the token     *)
(* "\\xff" stands for a byte sequence that is not valid UTF-8.             *)
(***************************************************************************)
EXTENDS Integers, Sequences, FiniteSets, TLC

\* ------------------------------------------------------------------ bounds
MaxSources == 2

\* ---------------------------------------------------------- Python values
PyNone == [k |-> "null"]
PyStr(s) == [k |-> "str", s |-> s]
PyInt(n) == [k |-> "num", n |-> n]
PyBool(b) == [k |-> "bool", b |-> b]
PyList(a) == [k |-> "list", a |-> a]
PyDict(o) == [k |-> "dict", o |-> o]

EmptyDict == [x \in {} |-> PyNone]

\* ------------------------------------------------------------ JSON tokens
LBrace == [t |-> "{"]
RBrace == [t |-> "}"]
LBrack == [t |-> "["]
RBrack == [t |-> "]"]
Comma == [t |-> ","]
Colon == [t |-> ":"]
TStr(s) == [t |-> "str", s |-> s]
TNum(n) == [t |-> "num", n |-> n]
TTrue == [t |-> "true"]
TFalse == [t |-> "false"]
TNull == [t |-> "null"]
TBare(s) == [t |-> "bare", s |-> s]
BadByte == [t |-> "\\xff"]

\* {"content": "x", "id": 7, "extra": true}
TextObject == <<LBrace, TStr("content"), Colon, TStr("x"), Comma, TStr("id"), Colon, TNum(7), Comma, TStr("extra"), Colon, TTrue, RBrace>>
\* [{"content": "a"}, {"content": "b"}]
TextArray == <<LBrack, LBrace, TStr("content"), Colon, TStr("a"), RBrace, Comma, LBrace, TStr("content"), Colon, TStr("b"), RBrace, RBrack>>
\* "just a string"
TextString == <<TStr("just a string")>>
\* {invalid json
TextInvalid == <<LBrace, TBare("invalid"), TBare("json")>>
\* {"content": 5, "id": null}
TextNumberContent == <<LBrace, TStr("content"), Colon, TNum(5), Comma, TStr("id"), Colon, TNull, RBrace>>
\* [{"content": "a"}, 3, {"text": "b", "id": 2}]
TextMixedArray == <<LBrack, LBrace, TStr("content"), Colon, TStr("a"), RBrace, Comma, TNum(3), Comma, LBrace, TStr("text"), Colon, TStr("b"), Comma, TStr("id"), Colon, TNum(2), RBrace, RBrack>>
\* []
TextEmptyArray == <<LBrack, RBrack>>
\* {"content": "a"} followed by a byte that is not UTF-8
BytesNotUtf8 == <<LBrace, TStr("content"), Colon, TStr("a"), RBrace, BadByte>>

\* ---------------------------------------------------------------- sources
StrSource(p) == [kind |-> "str", path |-> p]
ByteStreamSource(d) == [kind |-> "ByteStream", data |-> d]
IntSource == [kind |-> "int"]

Missing == [k |-> "missing"]
File(d) == [k |-> "file", data |-> d]
Paths == {"a.json"}
FileContents == {Missing, File(TextArray), File(TextNumberContent), File(TextEmptyArray), File(BytesNotUtf8)}

Texts == {TextObject, TextString, TextInvalid, TextMixedArray}

Sources == {ByteStreamSource(d) : d \in Texts} \cup {StrSource(p) : p \in Paths} \cup {IntSource}

RECURSIVE SeqsUpTo(_, _)
SeqsUpTo(S, n) == IF n = 0 THEN {<<>>} ELSE LET shorter == SeqsUpTo(S, n - 1) IN shorter \cup {Append(s, x) : s \in {q \in shorter : Len(q) = n - 1}, x \in S}

SourceLists == SeqsUpTo(Sources, MaxSources)

ContentFields == {"content", "text"}
MetaFieldsChoices == {PyNone, PyList(<<>>), PyList(<<"id">>)}

\* content_field, meta_fields, progress_bar: the attributes set by __init__
\* fs: the files the paths name
\* sources, idx, json_data, j, documents: the arguments and locals of run
\* pc: "idle" outside a call, "source" at the head of the loop over the
\*     sources, "items" inside the loop over an array, "raised" when an
\*     exception has left run (propagated holds it)
\* log: the warnings logged by the present call, each with the place
\*     <<source index, element index>> it was logged at
\* origin: for every element of documents, the place and the JSON value it
\*     was built from (history variable)
\* lastCall: the sources and the result of the last completed call, as long
\*     as no file has changed since; prev: that result, during a call with
\*     the same sources (history variables)
VARIABLES content_field, meta_fields, progress_bar, fs, sources, pc, idx, json_data, j, documents, origin, log, lastCall, prev, propagated

vars == <<content_field, meta_fields, progress_bar, fs, sources, pc, idx, json_data, j, documents, origin, log, lastCall, prev, propagated>>

config == <<content_field, meta_fields, progress_bar>>

\* ------------------------------------------------------------- exceptions
\* every class below derives from Exception
ExceptionSubclasses == {"ValueError", "FileNotFoundError", "UnicodeDecodeError", "JSONDecodeError", "AttributeError"}
Raise(cls) == [ok |-> FALSE, exc |-> cls]

\* bytes.decode('utf-8') / reading a file opened with encoding='utf-8'
DecodeUtf8(data) == IF \E i \in 1..Len(data) : data[i] = BadByte THEN Raise("UnicodeDecodeError") ELSE [ok |-> TRUE, text |-> data]

\* _extract_content(source)
ExtractContent(source) ==
    IF source.kind \in {"str", "Path"}
    THEN IF fs[source.path] = Missing THEN Raise("FileNotFoundError") ELSE DecodeUtf8(fs[source.path].data)
    ELSE IF source.kind = "ByteStream"
         THEN DecodeUtf8(source.data)
         ELSE Raise("ValueError")

\* json.loads(file_content): recursive descent over the tokens of the text
ParseFail == [ok |-> FALSE, val |-> PyNone, rest |-> <<>>]
ParseOk(v, rest) == [ok |-> TRUE, val |-> v, rest |-> rest]

RECURSIVE ParseValue(_), ParseElements(_, _), ParseMembers(_, _)
ParseValue(toks) ==
    IF toks = <<>> THEN ParseFail
    ELSE LET h == Head(toks)
             r == Tail(toks)
         IN CASE h.t = "str" -> ParseOk(PyStr(h.s), r)
              [] h.t = "num" -> ParseOk(PyInt(h.n), r)
              [] h.t = "true" -> ParseOk(PyBool(TRUE), r)
              [] h.t = "false" -> ParseOk(PyBool(FALSE), r)
              [] h.t = "null" -> ParseOk(PyNone, r)
              [] h.t = "[" -> IF r # <<>> /\ Head(r) = RBrack THEN ParseOk(PyList(<<>>), Tail(r)) ELSE ParseElements(r, <<>>)
              [] h.t = "{" -> IF r # <<>> /\ Head(r) = RBrace THEN ParseOk(PyDict(EmptyDict), Tail(r)) ELSE ParseMembers(r, EmptyDict)
              [] OTHER -> ParseFail

ParseElements(toks, acc) ==
    LET e == ParseValue(toks)
    IN IF ~e.ok \/ e.rest = <<>> THEN ParseFail
       ELSE IF Head(e.rest) = Comma THEN ParseElements(Tail(e.rest), Append(acc, e.val))
       ELSE IF Head(e.rest) = RBrack THEN ParseOk(PyList(Append(acc, e.val)), Tail(e.rest))
       ELSE ParseFail

ParseMembers(toks, acc) ==
    IF Len(toks) < 2 \/ toks[1].t # "str" \/ toks[2] # Colon THEN ParseFail
    ELSE LET e == ParseValue(SubSeq(toks, 3, Len(toks)))
             o == (toks[1].s :> e.val) @@ acc
         IN IF ~e.ok \/ e.rest = <<>> THEN ParseFail
            ELSE IF Head(e.rest) = Comma THEN ParseMembers(Tail(e.rest), o)
            ELSE IF Head(e.rest) = RBrace THEN ParseOk(PyDict(o), Tail(e.rest))
            ELSE ParseFail

JsonLoads(text) ==
    LET p == ParseValue(text)
    IN IF p.ok /\ p.rest = <<>> THEN [ok |-> TRUE, val |-> p.val] ELSE Raise("JSONDecodeError")

\* the try body up to the isinstance tests: extraction, then parsing
Load(source) ==
    LET file_content == ExtractContent(source)
    IN IF file_content.ok THEN JsonLoads(file_content.text) ELSE file_content

\* variant: except ValueError
CaughtOnlyValueError(e) == e.exc \in {"ValueError", "UnicodeDecodeError", "JSONDecodeError"}

\* except Exception
CaughtByExcept(e) == e.exc \in ExceptionSubclasses

\* ------------------------------------------------------------- documents
Document(content, meta) == [content |-> content, meta |-> meta]

\* Python truth value of a list-or-None (not self.meta_fields)
Falsy(x) == x = PyNone \/ (x.k = "list" /\ x.a = <<>>)

\* k in self.meta_fields
InList(key, l) == \E i \in 1..Len(l.a) : l.a[i] = key

\* variant: data.get(self.content_field)
DictGetNoDefault(o, key, default) == IF key \in DOMAIN o THEN o[key] ELSE PyNone

\* data.get(self.content_field, "")
DictGet(o, key, default) == IF key \in DOMAIN o THEN o[key] ELSE default

\* {k: v for k, v in data.items() if not self.meta_fields or k in self.meta_fields}
Metadata(o) == [key \in {kk \in DOMAIN o : Falsy(meta_fields) \/ InList(kk, meta_fields)} |-> o[key]]

\* _create_document(data): the document, or None and the logged warning
CreateDocument(data) ==
    IF data.k # "dict"
    THEN [document |-> PyNone, warning |-> [msg |-> "Failed to create document from data. Error: %s", error |-> "AttributeError"]]
    ELSE [document |-> Document(DictGet(data.o, content_field, PyStr("")), Metadata(data.o)), warning |-> PyNone]

\* variant: if document and document.content:
TruthyByContent(document) == document # PyNone /\ document.content # PyStr("")

\* if document:
Truthy(document) == document # PyNone

\* -------------------------------------------------------------------- run
Init ==
    /\ content_field \in ContentFields
    /\ meta_fields \in MetaFieldsChoices
    /\ progress_bar \in BOOLEAN
    /\ fs \in [Paths -> FileContents]
    /\ sources = <<>>
    /\ pc = "idle"
    /\ idx = 0
    /\ json_data = PyNone
    /\ j = 0
    /\ documents = <<>>
    /\ origin = <<>>
    /\ log = <<>>
    /\ lastCall = PyNone
    /\ prev = PyNone
    /\ propagated = PyNone

\* variant: documents.insert(0, document)
CollectInFront(data, item) ==
    LET made == CreateDocument(data)
    IN /\ documents' = IF Truthy(made.document) THEN <<made.document>> \o documents ELSE documents
       /\ origin' = IF Truthy(made.document) THEN <<[src |-> idx, item |-> item, data |-> data]>> \o origin ELSE origin
       /\ log' = IF made.warning # PyNone THEN Append(log, [at |-> <<idx, item>>, rec |-> made.warning]) ELSE log

\* the result of creating a document from data, taken at position (idx, item)
Collect(data, item) ==
    LET made == CreateDocument(data)
    IN /\ documents' = IF Truthy(made.document) THEN Append(documents, made.document) ELSE documents
       /\ origin' = IF Truthy(made.document) THEN Append(origin, [src |-> idx, item |-> item, data |-> data]) ELSE origin
       /\ log' = IF made.warning # PyNone THEN Append(log, [at |-> <<idx, item>>, rec |-> made.warning]) ELSE log

\* variant: the document list is kept on the converter and never emptied
RunKeepsDocuments(srcs) ==
    /\ pc = "idle"
    /\ sources' = srcs
    /\ documents' = IF lastCall # PyNone THEN lastCall.result.documents ELSE <<>>
    /\ origin' = <<>>
    /\ log' = <<>>
    /\ idx' = 1
    /\ pc' = "source"
    /\ prev' = IF lastCall # PyNone /\ lastCall.sources = srcs THEN lastCall.result ELSE PyNone
    /\ lastCall' = PyNone
    /\ UNCHANGED <<config, fs, json_data, j, propagated>>

\* run(sources) is called: documents = []
Run(srcs) ==
    /\ pc = "idle"
    /\ sources' = srcs
    /\ documents' = <<>>
    /\ origin' = <<>>
    /\ log' = <<>>
    /\ idx' = 1
    /\ pc' = "source"
    /\ prev' = IF lastCall # PyNone /\ lastCall.sources = srcs THEN lastCall.result ELSE PyNone
    /\ lastCall' = PyNone
    /\ UNCHANGED <<config, fs, json_data, j, propagated>>

\* variant: the handler also empties the document list
SourceRaisesDropsDocuments ==
    /\ pc = "source" /\ idx <= Len(sources)
    /\ LET e == Load(sources[idx])
       IN /\ ~e.ok
          /\ log' = Append(log, [at |-> <<idx, 0>>, rec |-> [msg |-> "Failed to process %s. Error: %s", source |-> sources[idx], error |-> e.exc]])
    /\ idx' = idx + 1
    /\ documents' = <<>>
    /\ origin' = <<>>
    /\ UNCHANGED <<config, fs, sources, pc, json_data, j, lastCall, prev, propagated>>

\* the try body raises in _extract_content or json.loads
SourceRaises ==
    /\ pc = "source" /\ idx <= Len(sources)
    /\ LET e == Load(sources[idx])
       IN /\ ~e.ok
          /\ IF CaughtByExcept(e)
             THEN /\ log' = Append(log, [at |-> <<idx, 0>>, rec |-> [msg |-> "Failed to process %s. Error: %s", source |-> sources[idx], error |-> e.exc]])
                  /\ idx' = idx + 1
                  /\ UNCHANGED <<pc, propagated>>
             ELSE /\ pc' = "raised"
                  /\ propagated' = e
                  /\ UNCHANGED <<log, idx>>
    /\ UNCHANGED <<config, fs, sources, json_data, j, documents, origin, lastCall, prev>>

\* isinstance(json_data, list): the for loop over the items starts
SourceList ==
    /\ pc = "source" /\ idx <= Len(sources)
    /\ LET e == Load(sources[idx])
       IN /\ e.ok /\ e.val.k = "list"
          /\ json_data' = e.val
    /\ j' = 1
    /\ pc' = "items"
    /\ UNCHANGED <<config, fs, sources, idx, documents, origin, log, lastCall, prev, propagated>>

\* variant: _create_document without its try/except, the error of an element
\* reaches the handler of the source
ItemStepAborts ==
    /\ pc = "items" /\ j <= Len(json_data.a)
    /\ IF json_data.a[j].k = "dict"
       THEN /\ Collect(json_data.a[j], j)
            /\ j' = j + 1
            /\ UNCHANGED <<pc, idx, json_data>>
       ELSE /\ log' = Append(log, [at |-> <<idx, 0>>, rec |-> [msg |-> "Failed to process %s. Error: %s", source |-> sources[idx], error |-> "AttributeError"]])
            /\ idx' = idx + 1
            /\ pc' = "source"
            /\ json_data' = PyNone
            /\ j' = 0
            /\ UNCHANGED <<documents, origin>>
    /\ UNCHANGED <<config, fs, sources, lastCall, prev, propagated>>

\* one iteration of: for item in json_data
ItemStep ==
    /\ pc = "items" /\ j <= Len(json_data.a)
    /\ Collect(json_data.a[j], j)
    /\ j' = j + 1
    /\ UNCHANGED <<config, fs, sources, pc, idx, json_data, lastCall, prev, propagated>>

\* the for loop over the items is exhausted
ItemsDone ==
    /\ pc = "items" /\ j > Len(json_data.a)
    /\ json_data' = PyNone
    /\ j' = 0
    /\ idx' = idx + 1
    /\ pc' = "source"
    /\ UNCHANGED <<config, fs, sources, documents, origin, log, lastCall, prev, propagated>>

\* isinstance(json_data, dict)
SourceDict ==
    /\ pc = "source" /\ idx <= Len(sources)
    /\ LET e == Load(sources[idx])
       IN /\ e.ok /\ e.val.k = "dict"
          /\ Collect(e.val, 0)
    /\ idx' = idx + 1
    /\ UNCHANGED <<config, fs, sources, pc, json_data, j, lastCall, prev, propagated>>

\* variant: the else branch logs nothing
SourceOtherSilent ==
    /\ pc = "source" /\ idx <= Len(sources)
    /\ LET e == Load(sources[idx])
       IN e.ok /\ e.val.k \notin {"list", "dict"}
    /\ idx' = idx + 1
    /\ UNCHANGED <<config, fs, sources, pc, json_data, j, documents, origin, log, lastCall, prev, propagated>>

\* neither list nor dict
SourceOther ==
    /\ pc = "source" /\ idx <= Len(sources)
    /\ LET e == Load(sources[idx])
       IN e.ok /\ e.val.k \notin {"list", "dict"}
    /\ log' = Append(log, [at |-> <<idx, 0>>, rec |-> [msg |-> "Unsupported JSON format in %s", source |-> sources[idx]]])
    /\ idx' = idx + 1
    /\ UNCHANGED <<config, fs, sources, pc, json_data, j, documents, origin, lastCall, prev, propagated>>

\* the for loop over the sources is exhausted
AtReturn == pc = "source" /\ idx > Len(sources)

\* return {"documents": documents}: the frame of the call is gone, the caller
\* holds the result
Return ==
    /\ AtReturn
    /\ lastCall' = [sources |-> sources, result |-> [documents |-> documents]]
    /\ pc' = "idle"
    /\ sources' = <<>>
    /\ idx' = 0
    /\ documents' = <<>>
    /\ origin' = <<>>
    /\ log' = <<>>
    /\ prev' = PyNone
    /\ UNCHANGED <<config, fs, json_data, j, propagated>>

\* between two calls a file is rewritten or removed: no completed call has
\* read the present contents
WriteFile(p, c) ==
    /\ pc = "idle"
    /\ fs[p] # c
    /\ fs' = [fs EXCEPT ![p] = c]
    /\ lastCall' = PyNone
    /\ UNCHANGED <<config, sources, pc, idx, json_data, j, documents, origin, log, prev, propagated>>

Next ==
    \/ \E srcs \in SourceLists : Run(srcs)
    \/ SourceRaises
    \/ SourceList
    \/ ItemStep
    \/ ItemsDone
    \/ SourceDict
    \/ SourceOther
    \/ Return
    \/ \E p \in Paths, c \in FileContents : WriteFile(p, c)

Spec == Init /\ [][Next]_vars


\* -------------------------------------------------- run as a pure function
\* the documents one source contributes (the try body of run)
SourceDocs(source) ==
    LET e == Load(source)
    IN IF ~e.ok THEN <<>>
       ELSE IF e.val.k = "list" THEN SelectSeq([i \in 1..Len(e.val.a) |-> CreateDocument(e.val.a[i]).document], Truthy)
       ELSE IF e.val.k = "dict" THEN SelectSeq(<<CreateDocument(e.val).document>>, Truthy)
       ELSE <<>>

\* the documents of a whole call
RECURSIVE RunResult(_)
RunResult(srcs) == IF srcs = <<>> THEN <<>> ELSE SourceDocs(Head(srcs)) \o RunResult(Tail(srcs))

\* ------------------------------------------------------------ observations
RemoveAt(s, i) == SubSeq(s, 1, i - 1) \o SubSeq(s, i + 1, Len(s))

Running == pc \in {"source", "items"}

\* source i fails in extraction or parsing
Fails(i) == ~Load(sources[i]).ok

\* source i parses to a JSON value that is neither an object nor an array
Scalar(i) == LET e == Load(sources[i]) IN e.ok /\ e.val.k \notin {"list", "dict"}

\* every emitted document with the place it was built from
Emitted == [k \in 1..Len(documents) |-> [document |-> documents[k], from |-> origin[k]]]
EmittedOf(i) == SelectSeq(Emitted, LAMBDA r : r.from.src = i)

\* the warnings logged at place (i, item)
WarningsAt(i, item) == SelectSeq(log, LAMBDA w : w.at = <<i, item>>)
WarningsOf(i) == SelectSeq(log, LAMBDA w : w.at[1] = i)

IsCandidate(r) ==
    LET e == Load(sources[r.src])
    IN /\ e.ok
       /\ \/ r.item = 0 /\ e.val.k = "dict" /\ r.data = e.val
          \/ r.item > 0 /\ e.val.k = "list" /\ r.item <= Len(e.val.a) /\ r.data = e.val.a[r.item]

Precedes(r1, r2) == r1.src < r2.src \/ (r1.src = r2.src /\ r1.item < r2.item)

\* what remains of the call, ordered lexicographically
Rank == <<Len(sources) + 1 - idx, IF pc = "source" THEN 1 ELSE 0, IF pc = "items" THEN Len(json_data.a) + 1 - j ELSE 0>>
LexLess(a, b) == a[1] < b[1] \/ (a[1] = b[1] /\ a[2] < b[2]) \/ (a[1] = b[1] /\ a[2] = b[2] /\ a[3] < b[3])

\* ------------------------------------------------------------------ claims

\* C1: whatever the sources are (unsupported kinds, unreadable paths, invalid
\* JSON, wrong-shape values, elements that give no document), no exception
\* leaves run, and every step of a call brings it closer to its return: the
\* call returns a document list.
C1_NoErrorPropagates ==
    /\ [](pc # "raised" /\ propagated = PyNone)
    /\ [][Running => (pc' = "idle" \/ (Running' /\ LexLess(Rank', Rank) /\ Rank'[1] >= 0 /\ Rank'[3] >= 0))]_vars

C1_Witness ==
    /\ AtReturn
    /\ Len(sources) = 2
    /\ Fails(1) /\ Load(sources[1]).exc = "FileNotFoundError"
    /\ Fails(2) /\ Load(sources[2]).exc = "JSONDecodeError"
    /\ Len(log) = 2

\* C2: a source that fails in extraction or parsing contributes no document,
\* and the call returns exactly what it returns for the list without it.
C2_FailureIsolation ==
    AtReturn => \A i \in 1..Len(sources) : Fails(i) => (EmittedOf(i) = <<>> /\ documents = RunResult(RemoveAt(sources, i)))

C2_Witness ==
    /\ AtReturn
    /\ Len(sources) = 2
    /\ \E i \in 1..2 : Fails(i)
    /\ Len(documents) > 1

\* C3: with an allow-list configured, of any size, meta holds exactly the
\* pairs of the object whose key is in the list; without one, all the pairs.
C3_MetaFollowsAllowList ==
    \A k \in 1..Len(documents) :
        LET o == origin[k].data.o
        IN documents[k].meta = IF meta_fields = PyNone THEN o ELSE [key \in {kk \in DOMAIN o : InList(kk, meta_fields)} |-> o[key]]

\* C4: an array of K objects gives exactly K documents for its source, the
\* i-th built from the i-th element.
C4_ArrayGivesKDocuments ==
    (pc = "items" /\ j > Len(json_data.a) /\ \A i \in 1..Len(json_data.a) : json_data.a[i].k = "dict")
        => /\ Len(EmittedOf(idx)) = Len(json_data.a)
           /\ \A i \in 1..Len(json_data.a) :
                /\ EmittedOf(idx)[i].from.item = i
                /\ EmittedOf(idx)[i].from.data = json_data.a[i]
                /\ EmittedOf(idx)[i].document = CreateDocument(json_data.a[i]).document

C4_Witness ==
    /\ pc = "items" /\ j > Len(json_data.a)
    /\ Len(json_data.a) = 2
    /\ \A i \in 1..2 : json_data.a[i].k = "dict"
    /\ idx = 2
    /\ Len(documents) = 3

\* C5: the returned list is the concatenation, in source order and within a
\* source in array order, of the documents built from the candidates; none
\* twice, none from elsewhere, none missing.
C5_SourceThenArrayOrder ==
    /\ Len(origin) = Len(documents)
    /\ \A k \in 1..Len(documents) : IsCandidate(origin[k]) /\ documents[k] = CreateDocument(origin[k].data).document
    /\ \A k1, k2 \in 1..Len(documents) : k1 < k2 => Precedes(origin[k1], origin[k2])
    /\ AtReturn => documents = RunResult(sources)

C5_Witness ==
    /\ AtReturn
    /\ Len(documents) >= 3
    /\ origin[1].src = 1 /\ origin[1].item = 1
    /\ origin[Len(origin)].src = 2 /\ origin[Len(origin)].item = 0

\* C6: a source that parses to a string, number, bool or null gives no
\* document and exactly one warning naming the source, and the loop goes on
\* with the next source.
C6_ScalarSkippedWithWarning ==
    /\ [][(pc = "source" /\ idx <= Len(sources) /\ Scalar(idx))
            => /\ pc' = "source" /\ idx' = idx + 1
               /\ documents' = documents
               /\ Len(log') = Len(log) + 1
               /\ SubSeq(log', 1, Len(log)) = log
               /\ log'[Len(log')].rec = [msg |-> "Unsupported JSON format in %s", source |-> sources[idx]]]_vars
    /\ [](\A i \in 1..Len(sources) : (Running /\ Scalar(i)) => (EmittedOf(i) = <<>> /\ Len(WarningsOf(i)) = (IF idx > i THEN 1 ELSE 0)))

C6_Witness ==
    /\ AtReturn
    /\ Len(sources) = 2
    /\ Scalar(1)
    /\ Len(WarningsOf(1)) = 1
    /\ Len(EmittedOf(2)) > 0

\* C7: a second call with the same sources, their contents unchanged,
\* returns the same document list, and no step changes the configuration.
C7_Idempotent ==
    /\ []((AtReturn /\ prev # PyNone) => prev = [documents |-> documents])
    /\ [][config' = config]_vars

C7_Witness ==
    /\ AtReturn
    /\ prev # PyNone
    /\ Len(documents) > 1
    /\ Len(log) > 0

\* C8: the content of every emitted document is a string.
C8_ContentIsString ==
    \A k \in 1..Len(documents) : documents[k].content.k = "str"

\* C9: the content of a document is the object's value at content_field,
\* whatever its type, and the empty string when the key is absent.
C9_ContentAsIs ==
    \A k \in 1..Len(documents) :
        LET o == origin[k].data.o
        IN documents[k].content = IF content_field \in DOMAIN o THEN o[content_field] ELSE PyStr("")

C9_Witness ==
    /\ \E k \in 1..Len(documents) : documents[k].content = PyInt(5)
    /\ \E k \in 1..Len(documents) : content_field \notin DOMAIN origin[k].data.o /\ documents[k].content = PyStr("")

\* C10: an array element that gives no document is skipped with one warning:
\* the other elements of the array, before and after it, give their
\* documents in array order, and the later sources are processed.
C10_ElementSkipped ==
    /\ pc = "items" =>
        /\ \A i \in 1..(j - 1) :
            IF json_data.a[i].k = "dict"
            THEN /\ Len(WarningsAt(idx, i)) = 0
                 /\ \E k \in 1..Len(EmittedOf(idx)) : EmittedOf(idx)[k].from.item = i /\ EmittedOf(idx)[k].document = CreateDocument(json_data.a[i]).document
            ELSE /\ Len(WarningsAt(idx, i)) = 1
                 /\ \A k \in 1..Len(EmittedOf(idx)) : EmittedOf(idx)[k].from.item # i
        /\ Len(WarningsOf(idx)) = Cardinality({i \in 1..(j - 1) : json_data.a[i].k # "dict"})
    /\ AtReturn =>
        \A i \in 1..Len(sources) :
            LET e == Load(sources[i])
            IN (e.ok /\ e.val.k = "list" /\ \E n \in 1..Len(e.val.a) : e.val.a[n].k # "dict")
                => LET a == e.val.a
                       dicts == {n \in 1..Len(a) : a[n].k = "dict"}
                   IN /\ {EmittedOf(i)[k].from.item : k \in 1..Len(EmittedOf(i))} = dicts
                      /\ Len(EmittedOf(i)) = Cardinality(dicts)
                      /\ \A k1, k2 \in 1..Len(EmittedOf(i)) : k1 < k2 => EmittedOf(i)[k1].from.item < EmittedOf(i)[k2].from.item
                      /\ \A n \in 1..Len(a) : Len(WarningsAt(i, n)) = (IF n \in dicts THEN 0 ELSE 1)
                      /\ \A later \in (i + 1)..Len(sources) :
                            /\ [k \in 1..Len(EmittedOf(later)) |-> EmittedOf(later)[k].document] = SourceDocs(sources[later])
                            /\ Fails(later) => Len(WarningsOf(later)) = 1

C10_Witness ==
    /\ AtReturn
    /\ Len(sources) = 2
    /\ Load(sources[1]) = JsonLoads(TextMixedArray)
    /\ Load(sources[1]).val.a[2] = PyInt(3)
    /\ Len(EmittedOf(1)) = 2
    /\ Len(WarningsAt(1, 2)) = 1
    /\ Len(EmittedOf(2)) > 0

====
